---- MODULE Spec2Model ----
(***************************************************************************)
(* The Zumo sumo-robot controller: a finite state machine driven by a      *)
(* pushbutton, three ultrasonic rangers and a reflectance array, with the  *)
(* control cycle  loop() = updateEvent(); updateState(); doState().        *)
(***************************************************************************)
EXTENDS Integers, Sequences, FiniteSets, TLC

\* ------------------------------------------------------------------------
\* Program constants
\* ------------------------------------------------------------------------
MAX_DISTANCE == 100
SONAR_THRESHOLD == 30
NUM_SENSORS == 4
TIMEOUT == 500
QTRTHRESHOLD == 300
REVERSE_SPEED == 400
TURN_SPEED == 300
FORWARD_SPEED == 400
SEARCH_SPEED == 200
REVERSE_DURATION == 200
TURN_DURATION == 300
\* the wait of updateIdle() and the settle pause before OnFind
IDLE_WAIT == 5000
FIND_DELAY == 50

\* enum States / enum Events
Start == "Start"
Idle == "Idle"
Search == "Search"
Chase == "Chase"
BackUp == "BackUp"
TurnLeft == "TurnLeft"
TurnRight == "TurnRight"
States == {Start, Idle, Search, Chase, BackUp, TurnLeft, TurnRight}

None == "None"
OnButtonPress == "OnButtonPress"
On5SecondsPassed == "On5SecondsPassed"
OnFind == "OnFind"
OnEdge == "OnEdge"
OnSafe == "OnSafe"
OnLost == "OnLost"
OnLeft == "OnLeft"
OnRight == "OnRight"
Events == {None, OnButtonPress, On5SecondsPassed, OnFind, OnEdge, OnSafe,
           OnLost, OnLeft, OnRight}

\* ------------------------------------------------------------------------
\* Bounds of the model
\* ------------------------------------------------------------------------
\* number of idle() calls explored
MaxIdleCalls == 4

\* ------------------------------------------------------------------------
\* Millisecond times.  millis() is an unsigned long (32 bits); idleTimer is
\* an unsigned long long (64 bits).  A time is kept as two 16-bit-based
\* words, value = hi * 2^16 + lo, so that the 32-bit wrap of millis() and
\* the 64-bit sum idleTimer + 5000 are both exact.
\* ------------------------------------------------------------------------
Word == 2^16

Time(hi, lo) == [hi |-> hi, lo |-> lo]

Ms(n) == Time(n \div Word, n % Word)

\* 64-bit sum (never overflows in the ranges reached)
Plus(a, b) ==
  LET s == a.lo + b.lo
  IN  Time(a.hi + b.hi + (s \div Word), s % Word)

\* truncation to unsigned long
Wrap32(a) == Time(a.hi % Word, a.lo)

Geq(a, b) == a.hi > b.hi \/ (a.hi = b.hi /\ a.lo >= b.lo)

\* Time that can pass in Start before the first idle() call: a moment, or
\* long enough to bring millis() within 3 seconds of its 32-bit wrap.
StartWaits == {Ms(1), Time(Word - 1, Word - 3000)}
\* Time between the millis() calls of two successive Idle cycles.
CycleSteps == {Ms(IDLE_WAIT \div 2), Ms(IDLE_WAIT - 1)}
\* A quarter of the period of millis().
LongSteps == {Time(Word \div 4, 0)}
\* Time between two millis() calls of the same idle() call.
InstrSteps == {Ms(0), Ms(1)}

\* ------------------------------------------------------------------------
\* Sensor readings
\* ------------------------------------------------------------------------
Channels == 0 .. (NUM_SENSORS - 1)
\* a reading just below the threshold (an edge) and one at it (no edge)
QtrVals == {QTRTHRESHOLD - 1, QTRTHRESHOLD}
QtrReadings == [Channels -> QtrVals]
\* ping_median(3) / US_ROUNDTRIP_CM: 0 when there is no echo
SonarVals == {0, SONAR_THRESHOLD - 1, SONAR_THRESHOLD}
Echoes == [front : SonarVals, left : SonarVals, right : SonarVals]

VARIABLES
  pc,              \* position in setup()/loop(): "setup", "updateState", "doState"
  zumoState,
  zumoEvent,
  startIdleTimer,
  stopIdleTimer,
  idleTimer,
  otteTalsTimer,
  sensorValues,
  pingRead,
  pingReadLeft,
  pingReadRight,
  clock,           \* the value returned by the latest millis() call
  echoFront,       \* the front range during the latest search/turn call, read or not
  motorSpeeds,     \* the command the motor driver holds, <<>> before the first
  \* what the latest state action did
  cmds,            \* the setSpeeds calls, each <<left, right, delay after it>>
  polled,          \* the sensors read
  emitted,         \* the event assigned, None if none
  branches,        \* the branches of backUp() that ran
  ran,             \* the state function that ran, "" before the first
  steps,           \* its setSpeeds calls and sensor reads, in program order
  \* history
  prevState,       \* zumoState before the latest updateState()
  idleCalls,       \* number of idle() calls so far
  firstIdleAt,     \* millis() at the first idle() call, <<>> before it
  fired            \* number of On5SecondsPassed emissions

vars == <<pc, zumoState, zumoEvent, startIdleTimer, stopIdleTimer, idleTimer,
          otteTalsTimer, sensorValues, pingRead, pingReadLeft, pingReadRight,
          clock, echoFront, motorSpeeds, cmds, polled, emitted, branches, ran,
          steps, prevState, idleCalls, firstIdleAt, fired>>

\* ------------------------------------------------------------------------
\* Pure functions of the program
\* ------------------------------------------------------------------------

\* QTRUpdate(): the scan loop over the freshly read values.
RECURSIVE QTRScan(_, _)
QTRScan(vals, i) ==
  IF i >= NUM_SENSORS THEN -1
  ELSE IF vals[i] < QTRTHRESHOLD THEN i
  ELSE QTRScan(vals, i + 1)

\* Variant of QTRUpdate() that compares with "<=".
QTRUpdateLeq(vals) ==
  LET low == {i \in 0 .. (NUM_SENSORS - 1) : vals[i] <= QTRTHRESHOLD}
  IN  IF low = {} THEN -1
      ELSE CHOOSE i \in low : \A j \in low : i <= j

QTRUpdate(vals) == QTRScan(vals, 0)

\* Variants of updateState() with a slip in the switch: the OnFind case
\* without its break, the None case without its break, and the
\* OnButtonPress case entering Search.
updateStateFindFalls(s, e) ==
  LET f1 == IF s = Search THEN Chase ELSE s
      f2 == IF f1 = TurnLeft THEN Chase ELSE f1
      f3 == IF f2 = TurnRight THEN Chase ELSE f2
      e0 == IF e = OnFind THEN f3 ELSE s
      e1 == IF e0 = Search THEN BackUp ELSE e0
      e2 == IF e1 = Chase THEN BackUp ELSE e1
      e3 == IF e2 = TurnLeft THEN BackUp ELSE e2
      e4 == IF e3 = TurnRight THEN BackUp ELSE e3
  IN  CASE e \in {OnFind, OnEdge} -> e4
        [] e = OnButtonPress -> IF s = Start THEN Idle ELSE s
        [] e = On5SecondsPassed -> IF s = Idle THEN Search ELSE s
        [] e = OnSafe -> IF s = BackUp THEN Search ELSE s
        [] e = OnLost -> IF s = Chase THEN Search ELSE s
        [] e = OnLeft -> IF s = Search THEN TurnLeft ELSE s
        [] e = OnRight -> IF s = Search THEN TurnRight ELSE s
        [] OTHER -> s

updateStateNoneFalls(s, e) ==
  CASE e \in {None, OnButtonPress} -> IF s = Start THEN Idle ELSE s
    [] e = On5SecondsPassed -> IF s = Idle THEN Search ELSE s
    [] e = OnFind -> IF s \in {Search, TurnLeft, TurnRight} THEN Chase ELSE s
    [] e = OnEdge ->
         IF s \in {Search, Chase, TurnLeft, TurnRight} THEN BackUp ELSE s
    [] e = OnSafe -> IF s = BackUp THEN Search ELSE s
    [] e = OnLost -> IF s = Chase THEN Search ELSE s
    [] e = OnLeft -> IF s = Search THEN TurnLeft ELSE s
    [] e = OnRight -> IF s = Search THEN TurnRight ELSE s
    [] OTHER -> s

updateStateSkipIdle(s, e) ==
  CASE e = OnButtonPress -> IF s = Start THEN Search ELSE s
    [] e = On5SecondsPassed -> IF s = Idle THEN Search ELSE s
    [] e = OnFind -> IF s \in {Search, TurnLeft, TurnRight} THEN Chase ELSE s
    [] e = OnEdge ->
         IF s \in {Search, Chase, TurnLeft, TurnRight} THEN BackUp ELSE s
    [] e = OnSafe -> IF s = BackUp THEN Search ELSE s
    [] e = OnLost -> IF s = Chase THEN Search ELSE s
    [] e = OnLeft -> IF s = Search THEN TurnLeft ELSE s
    [] e = OnRight -> IF s = Search THEN TurnRight ELSE s
    [] OTHER -> s

\* Variant of updateState() with the OnButtonPress case without its break:
\* it runs on into the On5SecondsPassed case.
updateStateButtonFalls(s, e) ==
  LET b1 == IF s = Start THEN Idle ELSE s
      b2 == IF b1 = Idle THEN Search ELSE b1
  IN  CASE e = OnButtonPress -> b2
        [] e = On5SecondsPassed -> IF s = Idle THEN Search ELSE s
        [] e = OnFind ->
             IF s \in {Search, TurnLeft, TurnRight} THEN Chase ELSE s
        [] e = OnEdge ->
             IF s \in {Search, Chase, TurnLeft, TurnRight} THEN BackUp ELSE s
        [] e = OnSafe -> IF s = BackUp THEN Search ELSE s
        [] e = OnLost -> IF s = Chase THEN Search ELSE s
        [] e = OnLeft -> IF s = Search THEN TurnLeft ELSE s
        [] e = OnRight -> IF s = Search THEN TurnRight ELSE s
        [] OTHER -> s

\* updateState(): the switch on the event, each case a run of independent ifs.
updateState(s, e) ==
  CASE e = None -> s
    [] e = OnButtonPress -> IF s = Start THEN Idle ELSE s
    [] e = On5SecondsPassed -> IF s = Idle THEN Search ELSE s
    [] e = OnFind ->
         LET s1 == IF s = Search THEN Chase ELSE s
             s2 == IF s1 = TurnLeft THEN Chase ELSE s1
             s3 == IF s2 = TurnRight THEN Chase ELSE s2
         IN  s3
    [] e = OnEdge ->
         LET s1 == IF s = Search THEN BackUp ELSE s
             s2 == IF s1 = Chase THEN BackUp ELSE s1
             s3 == IF s2 = TurnLeft THEN BackUp ELSE s2
             s4 == IF s3 = TurnRight THEN BackUp ELSE s3
         IN  s4
    [] e = OnSafe -> IF s = BackUp THEN Search ELSE s
    [] e = OnLost -> IF s = Chase THEN Search ELSE s
    [] e = OnLeft -> IF s = Search THEN TurnLeft ELSE s
    [] e = OnRight -> IF s = Search THEN TurnRight ELSE s
    [] OTHER -> s

\* Variant of updateIdle() with a digit of the wait dropped.
updateIdleEarly(startT, stopT, timer, now) ==
  startT /\ Geq(now, Plus(timer, Ms(IDLE_WAIT \div 10))) /\ ~stopT

\* updateIdle(): the condition under which it sets stopIdleTimer and
\* returns true; now is what millis() returns.
updateIdle(startT, stopT, timer, now) ==
  startT /\ Geq(now, Plus(timer, Ms(IDLE_WAIT))) /\ ~stopT

\* Variant of the range test without the "> 0" conjunct.
InRangeNoZero(r) == r < SONAR_THRESHOLD

\* sonarRead < SONAR_THRESHOLD && sonarRead > 0
InRange(r) == r < SONAR_THRESHOLD /\ r > 0

\* ------------------------------------------------------------------------
\* Initial state: the statically initialised globals, before setup().
\* ------------------------------------------------------------------------
Init ==
  /\ pc = "setup"
  /\ zumoState = Start
  /\ zumoEvent = None
  /\ startIdleTimer = FALSE
  /\ stopIdleTimer = FALSE
  /\ idleTimer = Ms(0)
  /\ otteTalsTimer = Ms(0)
  /\ sensorValues = [i \in Channels |-> 0]
  /\ pingRead = 0
  /\ pingReadLeft = 0
  /\ pingReadRight = 0
  /\ clock = Ms(0)
  /\ echoFront = 0
  /\ motorSpeeds = <<>>
  /\ cmds = <<>>
  /\ polled = {}
  /\ emitted = None
  /\ branches = {}
  /\ ran = ""
  /\ steps = <<>>
  /\ prevState = Start
  /\ idleCalls = 0
  /\ firstIdleAt = <<>>
  /\ fired = 0

\* the per-action log of a state action that commands cs, reads ps and
\* assigns event ev (None: assigns nothing)
Did(cs, ps, ev, bs) ==
  /\ cmds' = cs
  /\ polled' = ps
  /\ emitted' = ev
  /\ branches' = bs
  /\ zumoEvent' = IF ev = None THEN zumoEvent ELSE ev
  /\ motorSpeeds' = IF cs = <<>> THEN motorSpeeds
                    ELSE <<cs[Len(cs)][1], cs[Len(cs)][2]>>
  /\ pc' = "updateState"

\* one entry of steps: a motors.setSpeeds(l, r) call, a read of a sensor
SetSpeeds(l, r) == <<"set", l, r>>
Reads(sensor) == <<"read", sensor>>

\* Variant of doState() whose TurnRight case calls start().
doStateCaseWrongCall(s) ==
  CASE s = Start -> "start"
    [] s = Idle -> "idle"
    [] s = Search -> "search"
    [] s = Chase -> "chase"
    [] s = BackUp -> "backUp"
    [] s = TurnLeft -> "turnLeft"
    [] s = TurnRight -> "start"
    [] OTHER -> ""

\* doState(): the function its switch calls for state s
doStateCase(s) ==
  CASE s = Start -> "start"
    [] s = Idle -> "idle"
    [] s = Search -> "search"
    [] s = Chase -> "chase"
    [] s = BackUp -> "backUp"
    [] s = TurnLeft -> "turnLeft"
    [] s = TurnRight -> "turnRight"
    [] OTHER -> ""

\* doState() calls function fn
Calls(fn) ==
  /\ pc = "doState"
  /\ doStateCase(zumoState) = fn
  /\ ran' = fn

\* setup(): initialize()
setup ==
  /\ pc = "setup"
  /\ zumoState' = Start
  /\ zumoEvent' = None
  /\ idleTimer' = clock
  /\ otteTalsTimer' = clock
  /\ pc' = "updateState"
  /\ UNCHANGED <<ran, steps, echoFront, startIdleTimer, stopIdleTimer, sensorValues, pingRead,
                 pingReadLeft, pingReadRight, clock, motorSpeeds, cmds,
                 polled, emitted, branches, prevState, idleCalls,
                 firstIdleAt, fired>>

\* loop(): updateEvent() (empty) and updateState()
loopUpdateState ==
  /\ pc = "updateState"
  /\ zumoState' = updateState(zumoState, zumoEvent)
  /\ prevState' = zumoState
  /\ pc' = "doState"
  /\ UNCHANGED <<ran, steps, echoFront, zumoEvent, startIdleTimer, stopIdleTimer, idleTimer,
                 otteTalsTimer, sensorValues, pingRead, pingReadLeft,
                 pingReadRight, clock, motorSpeeds, cmds, polled, emitted,
                 branches, idleCalls, firstIdleAt, fired>>

\* start()
start ==
  /\ Calls("start")
  /\ \E btnPress \in BOOLEAN :
        Did(<<>>, {"button"}, IF btnPress THEN OnButtonPress ELSE None, {})
  /\ steps' = <<Reads("button")>>
  /\ UNCHANGED <<echoFront, zumoState, startIdleTimer, stopIdleTimer, idleTimer,
                 otteTalsTimer, sensorValues, pingRead, pingReadLeft,
                 pingReadRight, clock, prevState, idleCalls, firstIdleAt,
                 fired>>

\* idle(), called after one of the given waits since the latest millis()
idleCall(waits) ==
  LET arming == ~stopIdleTimer /\ ~startIdleTimer
  IN  \E d1 \in waits, d2 \in InstrSteps :
        LET t1 == Wrap32(Plus(clock, d1))
            \* millis() of the arming, then millis() of updateIdle()
            now == IF arming THEN Wrap32(Plus(t1, d2)) ELSE t1
            timer == IF arming THEN t1 ELSE idleTimer
            startT == IF arming THEN TRUE ELSE startIdleTimer
            fires == updateIdle(startT, stopIdleTimer, timer, now)
        IN  /\ (~arming => d2 = Ms(0))
            /\ idleTimer' = timer
            /\ startIdleTimer' = startT
            /\ stopIdleTimer' = IF fires THEN TRUE ELSE stopIdleTimer
            /\ clock' = now
            /\ firstIdleAt' = IF idleCalls = 0 THEN t1 ELSE firstIdleAt
            /\ fired' = IF fires THEN fired + 1 ELSE fired
            /\ steps' = IF arming THEN <<Reads("millis"), Reads("millis")>>
                         ELSE <<Reads("millis")>>
            /\ Did(<<>>, {"millis"},
                   IF fires THEN On5SecondsPassed ELSE None, {})

\* idle()
idle ==
  /\ Calls("idle")
  /\ idleCalls < MaxIdleCalls
  /\ idleCalls' = idleCalls + 1
  /\ idleCall(IF idleCalls = 0 THEN StartWaits ELSE CycleSteps)
  /\ UNCHANGED <<echoFront, zumoState, otteTalsTimer, sensorValues, pingRead,
                 pingReadLeft, pingReadRight, prevState>>

\* idle() in the cycles after the first MaxIdleCalls ones, taken a quarter
\* of the millis() period apart: the cycles between, in which idle() does
\* not fire, change nothing but the clock.
idleLong ==
  /\ Calls("idle")
  /\ idleCalls = MaxIdleCalls
  /\ idleCall(LongSteps)
  /\ UNCHANGED <<idleCalls, echoFront, zumoState, otteTalsTimer, sensorValues,
                 pingRead, pingReadLeft, pingReadRight, prevState>>

\* Variant of search() that tests the front range before the edge.
searchEventFrontFirst(edge, front, left, right) ==
  IF InRange(front) THEN OnFind
  ELSE IF edge > -1 THEN OnEdge
  ELSE IF InRange(left) THEN OnLeft
  ELSE IF InRange(right) THEN OnRight
  ELSE None

\* Variant of search() that tests the right range before the left one.
searchEventRightFirst(edge, front, left, right) ==
  IF edge > -1 THEN OnEdge
  ELSE IF InRange(front) THEN OnFind
  ELSE IF InRange(right) THEN OnRight
  ELSE IF InRange(left) THEN OnLeft
  ELSE None

\* search(): the event it assigns, given the index QTRUpdate() returned and
\* the three ranges; None when it assigns nothing.
searchEvent(edge, front, left, right) ==
  IF edge > -1 THEN OnEdge
  ELSE IF InRange(front) THEN OnFind
  ELSE IF InRange(left) THEN OnLeft
  ELSE IF InRange(right) THEN OnRight
  ELSE None

\* Variant of search() that halts the motors when it sees an edge.
searchCmdsHaltOnEdge(edge, front) ==
  IF edge > -1 THEN << <<0, 0, 0>> >>
  ELSE IF InRange(front)
  THEN << <<SEARCH_SPEED \div 2, SEARCH_SPEED, 0>>, <<0, 0, FIND_DELAY>> >>
  ELSE << <<SEARCH_SPEED \div 2, SEARCH_SPEED, 0>> >>

\* search(): its setSpeeds calls
searchCmds(edge, front) ==
  IF edge > -1 THEN <<>>
  ELSE IF InRange(front)
  THEN << <<SEARCH_SPEED \div 2, SEARCH_SPEED, 0>>, <<0, 0, FIND_DELAY>> >>
  ELSE << <<SEARCH_SPEED \div 2, SEARCH_SPEED, 0>> >>

\* search(): the sensors it reads
searchPolled(edge) ==
  IF edge > -1 THEN {"qtr"}
  ELSE {"qtr", "sonar", "sonarLeft", "sonarRight"}

\* search(): its setSpeeds calls and sensor reads, in program order
searchSteps(edge, front) ==
  IF edge > -1 THEN <<Reads("qtr")>>
  ELSE <<Reads("qtr"), SetSpeeds(SEARCH_SPEED \div 2, SEARCH_SPEED),
         Reads("sonar"), Reads("sonarLeft"), Reads("sonarRight")>>
       \o (IF InRange(front) THEN <<SetSpeeds(0, 0)>> ELSE <<>>)

search ==
  /\ Calls("search")
  /\ \E vals \in QtrReadings, e \in Echoes :
       LET edge == QTRUpdate(vals)
           ps == searchPolled(edge)
       IN  /\ sensorValues' = vals
           /\ echoFront' = e.front
           /\ pingRead' = IF "sonar" \in ps THEN e.front ELSE pingRead
           /\ pingReadLeft' = IF "sonarLeft" \in ps THEN e.left
                              ELSE pingReadLeft
           /\ pingReadRight' = IF "sonarRight" \in ps THEN e.right
                               ELSE pingReadRight
           /\ Did(searchCmds(edge, e.front), ps,
                  searchEvent(edge, e.front, e.left, e.right), {})
           /\ steps' = searchSteps(edge, e.front)
  /\ UNCHANGED <<zumoState, startIdleTimer, stopIdleTimer, idleTimer,
                 otteTalsTimer, clock, prevState, idleCalls, firstIdleAt,
                 fired>>

\* Variant of chase() that reports a lost target when there is no edge.
chaseEventLost(edge) == IF edge > -1 THEN OnEdge ELSE OnLost

\* Variant of chase() that tests "QTRUpdate()" instead of
\* "QTRUpdate() > -1".
chaseEventTruthy(edge) == IF edge # 0 THEN OnEdge ELSE None

\* chase(): the event it assigns, given the index QTRUpdate() returned
chaseEvent(edge) == IF edge > -1 THEN OnEdge ELSE None

\* Variant of chase() that scans for the edge before it commands the
\* motors.
chaseStepsScanFirst ==
  <<Reads("qtr"), SetSpeeds(FORWARD_SPEED, FORWARD_SPEED)>>

\* chase(): its setSpeeds call and sensor read, in program order
chaseSteps ==
  <<SetSpeeds(FORWARD_SPEED, FORWARD_SPEED), Reads("qtr")>>

\* chase()
chase ==
  /\ Calls("chase")
  /\ \E vals \in QtrReadings :
       /\ sensorValues' = vals
       /\ Did(<< <<FORWARD_SPEED, FORWARD_SPEED, 0>> >>, {"qtr"},
              chaseEvent(QTRUpdate(vals)), {})
       /\ steps' = chaseSteps
  /\ UNCHANGED <<echoFront, zumoState, startIdleTimer, stopIdleTimer, idleTimer,
                 otteTalsTimer, pingRead, pingReadLeft, pingReadRight,
                 clock, prevState, idleCalls, firstIdleAt, fired>>

\* backUp(): "if (first < last) {..}" followed by
\* "if (first > last) {..} else {..}", then the event.
backUpCmds(first, last) ==
  (IF first < last
   THEN << <<-REVERSE_SPEED, (-REVERSE_SPEED) \div 2, REVERSE_DURATION>>,
           <<-TURN_SPEED, TURN_SPEED, TURN_DURATION>> >>
   ELSE <<>>)
  \o
  (IF first > last
   THEN << <<(-REVERSE_SPEED) \div 2, -REVERSE_SPEED, REVERSE_DURATION>>,
           <<TURN_SPEED, -TURN_SPEED, TURN_DURATION>> >>
   ELSE << <<-REVERSE_SPEED, -REVERSE_SPEED, REVERSE_DURATION>>,
           <<-TURN_SPEED, TURN_SPEED, TURN_DURATION>> >>)

backUpBranches(first, last) ==
  (IF first < last THEN {"less"} ELSE {})
  \cup (IF first > last THEN {"greater"} ELSE {"equal"})

\* Variant of backUp() with the event assigned inside the else block.
backUpEventInElse(first, last) == IF first > last THEN None ELSE OnSafe

\* backUp(): the event it assigns
backUpEvent(first, last) == OnSafe

\* backUp(): its setSpeeds calls in program order; it reads no sensor
backUpSteps(first, last) ==
  LET cs == backUpCmds(first, last)
  IN  [i \in 1 .. Len(cs) |-> SetSpeeds(cs[i][1], cs[i][2])]

backUp ==
  /\ Calls("backUp")
  /\ LET first == sensorValues[0]
         last == sensorValues[NUM_SENSORS - 1]
     IN  /\ Did(backUpCmds(first, last), {}, backUpEvent(first, last),
                backUpBranches(first, last))
         /\ steps' = backUpSteps(first, last)
  /\ UNCHANGED <<echoFront, zumoState, startIdleTimer, stopIdleTimer, idleTimer,
                 otteTalsTimer, sensorValues, pingRead, pingReadLeft,
                 pingReadRight, clock, prevState, idleCalls, firstIdleAt,
                 fired>>

\* Variant of the turn functions that tests the front range before the edge.
turnEventFrontFirst(edge, front) ==
  IF InRange(front) THEN OnFind
  ELSE IF edge > -1 THEN OnEdge
  ELSE None

\* turnLeft() and turnRight() differ only in the pivot command.
turnEvent(edge, front) ==
  IF edge > -1 THEN OnEdge
  ELSE IF InRange(front) THEN OnFind
  ELSE None

turnCmds(pivot, edge, front) ==
  IF edge > -1 THEN <<pivot>>
  ELSE IF InRange(front) THEN <<pivot, <<0, 0, FIND_DELAY>> >>
  ELSE <<pivot>>

turnPolled(edge) == IF edge > -1 THEN {"qtr"} ELSE {"qtr", "sonar"}

\* turnLeft(), turnRight(): the setSpeeds calls and sensor reads, in
\* program order
turnSteps(pivot, edge, front) ==
  <<SetSpeeds(pivot[1], pivot[2]), Reads("qtr")>>
  \o (IF edge > -1 THEN <<>>
      ELSE <<Reads("sonar")>>
           \o (IF InRange(front) THEN <<SetSpeeds(0, 0)>> ELSE <<>>))

turn(pivot) ==
  \E vals \in QtrReadings, e \in Echoes :
    LET edge == QTRUpdate(vals)
        ps == turnPolled(edge)
    IN  /\ sensorValues' = vals
        /\ echoFront' = e.front
        /\ pingRead' = IF "sonar" \in ps THEN e.front ELSE pingRead
        /\ Did(turnCmds(pivot, edge, e.front), ps, turnEvent(edge, e.front),
               {})
        /\ steps' = turnSteps(pivot, edge, e.front)

turnLeft ==
  /\ Calls("turnLeft")
  /\ turn(<<-TURN_SPEED, TURN_SPEED, 0>>)
  /\ UNCHANGED <<zumoState, startIdleTimer, stopIdleTimer, idleTimer,
                 otteTalsTimer, pingReadLeft, pingReadRight, clock,
                 prevState, idleCalls, firstIdleAt, fired>>

turnRight ==
  /\ Calls("turnRight")
  /\ turn(<<TURN_SPEED, -TURN_SPEED, 0>>)
  /\ UNCHANGED <<zumoState, startIdleTimer, stopIdleTimer, idleTimer,
                 otteTalsTimer, pingReadLeft, pingReadRight, clock,
                 prevState, idleCalls, firstIdleAt, fired>>

\* doState(): the switch on zumoState
doState == start \/ idle \/ search \/ chase \/ backUp \/ turnLeft \/ turnRight

Next == setup \/ loopUpdateState \/ doState

Spec == Init /\ [][Next]_vars

\* The endless loop(): the cycles never stop, and the clock never stops
\* advancing while the machine waits in Idle.
FairNext == Next \/ idleLong

FairSpec == Init /\ [][FairNext]_vars /\ WF_vars(FairNext)

\* ------------------------------------------------------------------------
\* The earlier variant of the sketch (FiniteStateMachine.ino): five states,
\* six events, one sonar, six reflectance channels; updateEvent() polls the
\* sensors in every cycle and idle() is a blocking delay.  It uses the
\* variables of the same name; the others stay as they are.
\* ------------------------------------------------------------------------
V1_SONAR_THRESHOLD == 50
V1_NUM_SENSORS == 6
V1_QTRTHRESHOLD == 200
V1_IDLE_DELAY == 5000

V1States == {Start, Idle, Search, Chase, BackUp}
V1Events == {None, OnButtonPress, On5SecondsPassed, OnFind, OnEdge, OnSafe}

V1Channels == 0 .. (V1_NUM_SENSORS - 1)
V1QtrReadings == [V1Channels -> {V1_QTRTHRESHOLD - 1, V1_QTRTHRESHOLD}]
\* pingRead, in cm: no echo, just below the threshold, at the threshold
V1SonarVals == {0, V1_SONAR_THRESHOLD - 1, V1_SONAR_THRESHOLD}

RECURSIVE V1QTRScan(_, _)
V1QTRScan(vals, i) ==
  IF i >= V1_NUM_SENSORS THEN -1
  ELSE IF vals[i] < V1_QTRTHRESHOLD THEN i
  ELSE V1QTRScan(vals, i + 1)

V1QTRUpdate(vals) == V1QTRScan(vals, 0)

\* "else if (buttonUpdate)" tests the address of the function, not its
\* result: the condition is true whatever the button does.
V1buttonUpdateTest == TRUE

\* updateEvent(): the event it leaves in zumoEvent
V1updateEventResult(ev, edge, ping) ==
  IF edge > -1 THEN OnEdge
  ELSE IF ping < V1_SONAR_THRESHOLD THEN OnFind
  ELSE IF V1buttonUpdateTest THEN OnButtonPress
  ELSE ev

V1updateState(s, e) ==
  CASE e = None -> s
    [] e = OnButtonPress -> IF s = Start THEN Idle ELSE s
    [] e = On5SecondsPassed -> IF s = Idle THEN Search ELSE s
    [] e = OnFind -> IF s = Search THEN Chase ELSE s
    [] e = OnEdge ->
         LET s1 == IF s = Search THEN BackUp ELSE s
             s2 == IF s1 = Chase THEN BackUp ELSE s1
         IN  s2
    [] e = OnSafe -> IF s = BackUp THEN Search ELSE s
    [] OTHER -> s

\* the globals of the main sketch that this variant does not have, or does
\* not touch
V1Rest == <<startIdleTimer, stopIdleTimer, idleTimer, otteTalsTimer,
            pingReadLeft, pingReadRight, clock, echoFront, motorSpeeds,
            cmds, branches, steps, idleCalls, firstIdleAt, fired>>

V1Init ==
  /\ pc = "setup"
  /\ zumoState = Start
  /\ zumoEvent = None
  /\ startIdleTimer = FALSE
  /\ stopIdleTimer = FALSE
  /\ idleTimer = Ms(0)
  /\ otteTalsTimer = Ms(0)
  /\ sensorValues = [i \in V1Channels |-> 0]
  /\ pingRead = 0
  /\ pingReadLeft = 0
  /\ pingReadRight = 0
  /\ clock = Ms(0)
  /\ echoFront = 0
  /\ motorSpeeds = <<>>
  /\ cmds = <<>>
  /\ polled = {}
  /\ emitted = None
  /\ branches = {}
  /\ ran = ""
  /\ steps = <<>>
  /\ prevState = Start
  /\ idleCalls = 0
  /\ firstIdleAt = <<>>
  /\ fired = 0

\* setup()
V1setup ==
  /\ pc = "setup"
  /\ zumoState' = Start
  /\ zumoEvent' = None
  /\ pc' = "updateEvent"
  /\ UNCHANGED <<sensorValues, pingRead, polled, emitted, ran, prevState>>
  /\ UNCHANGED V1Rest

\* loop(): updateEvent()
V1updateEvent ==
  /\ pc = "updateEvent"
  /\ \E vals \in V1QtrReadings, ping \in V1SonarVals :
       LET edge == V1QTRUpdate(vals)
       IN  /\ sensorValues' = vals
           /\ pingRead' = IF edge > -1 THEN pingRead ELSE ping
           /\ polled' = IF edge > -1 THEN {"qtr"} ELSE {"qtr", "sonar"}
           /\ zumoEvent' = V1updateEventResult(zumoEvent, edge, ping)
  /\ pc' = "updateState"
  /\ UNCHANGED <<zumoState, emitted, ran, prevState>>
  /\ UNCHANGED V1Rest

\* loop(): updateState()
V1loopUpdateState ==
  /\ pc = "updateState"
  /\ zumoState' = V1updateState(zumoState, zumoEvent)
  /\ prevState' = zumoState
  /\ pc' = "doState"
  /\ UNCHANGED <<zumoEvent, sensorValues, pingRead, polled, emitted, ran>>
  /\ UNCHANGED V1Rest

\* loop(): doState(); idle() is "delay(5000); zumoEvent = On5SecondsPassed",
\* the four other state functions are empty.
V1doState ==
  /\ pc = "doState"
  /\ ran' = doStateCase(zumoState)
  /\ emitted' = IF zumoState = Idle THEN On5SecondsPassed ELSE None
  /\ zumoEvent' = IF zumoState = Idle THEN On5SecondsPassed ELSE zumoEvent
  /\ pc' = "updateEvent"
  /\ UNCHANGED <<zumoState, sensorValues, pingRead, polled, prevState>>
  /\ UNCHANGED V1Rest

V1Next == V1setup \/ V1updateEvent \/ V1loopUpdateState \/ V1doState

V1Spec == V1Init /\ [][V1Next]_vars

\* ------------------------------------------------------------------------
\* updateState() on every (state, event) pair: the machine is started in
\* an arbitrary pair and one updateState() is applied.
\* ------------------------------------------------------------------------
TableInit ==
  /\ pc = "updateState"
  /\ zumoState \in States
  /\ zumoEvent \in Events
  /\ startIdleTimer = FALSE
  /\ stopIdleTimer = FALSE
  /\ idleTimer = Ms(0)
  /\ otteTalsTimer = Ms(0)
  /\ sensorValues = [i \in Channels |-> 0]
  /\ pingRead = 0
  /\ pingReadLeft = 0
  /\ pingReadRight = 0
  /\ clock = Ms(0)
  /\ echoFront = 0
  /\ motorSpeeds = <<>>
  /\ cmds = <<>>
  /\ polled = {}
  /\ emitted = None
  /\ branches = {}
  /\ ran = ""
  /\ steps = <<>>
  /\ prevState = Start
  /\ idleCalls = 0
  /\ firstIdleAt = <<>>
  /\ fired = 0

TableNext == loopUpdateState

TableSpec == TableInit /\ [][TableNext]_vars

\* ------------------------------------------------------------------------
\* Properties
\* ------------------------------------------------------------------------

\* The transition table: (state, event, next state), 13 rows.
TransitionTable ==
  { <<Start, OnButtonPress, Idle>>,
    <<Idle, On5SecondsPassed, Search>>,
    <<Search, OnFind, Chase>>,
    <<Search, OnLeft, TurnLeft>>,
    <<Search, OnRight, TurnRight>>,
    <<Search, OnEdge, BackUp>>,
    <<Chase, OnEdge, BackUp>>,
    <<Chase, OnLost, Search>>,
    <<TurnLeft, OnFind, Chase>>,
    <<TurnLeft, OnEdge, BackUp>>,
    <<TurnRight, OnFind, Chase>>,
    <<TurnRight, OnEdge, BackUp>>,
    <<BackUp, OnSafe, Search>> }

TableRows(s, e) == {row \in TransitionTable : row[1] = s /\ row[2] = e}

TableTarget(s, e) ==
  IF TableRows(s, e) = {} THEN s ELSE (CHOOSE row \in TableRows(s, e) : TRUE)[3]

\* a state action has just run in state st
Ran(st) == pc = "updateState" /\ zumoState = st

\* C1: one updateState() takes (s, e) to the state the 13-row table gives
\* for it, and leaves s unchanged for every pair that is not in the table
\* (every pair with event None included); never two rows in a row.
C1_UpdateStateIsTable ==
  pc = "doState" => zumoState = TableTarget(prevState, zumoEvent)

C1_Witness ==
  /\ pc = "doState"
  /\ prevState = Chase /\ zumoEvent = OnLost /\ zumoState = Search

\* C2: a Search cycle whose reflectance scan reports an edge emits OnEdge,
\* never OnFind, OnLeft or OnRight, whatever the ranges are in that cycle.
C2_EdgeBeatsRanges ==
  (Ran(Search) /\ QTRUpdate(sensorValues) > -1)
    => (emitted = OnEdge /\ zumoEvent = OnEdge)

C2_Witness ==
  /\ Ran(Search) /\ QTRUpdate(sensorValues) > -1
  /\ echoFront > 0 /\ echoFront < SONAR_THRESHOLD
  /\ emitted = OnEdge

\* C3: in search, turnLeft and turnRight an event tied to a sonar channel is
\* assigned only for a reading r of that channel with 0 < r <
\* SONAR_THRESHOLD; a reading of 0 never produces it.
C3_ZeroRangeNoEvent ==
  (pc = "updateState" /\ zumoState \in {Search, TurnLeft, TurnRight})
    => /\ emitted = OnFind
            => ("sonar" \in polled /\ 0 < pingRead
                /\ pingRead < SONAR_THRESHOLD)
       /\ emitted = OnLeft
            => ("sonarLeft" \in polled /\ 0 < pingReadLeft
                /\ pingReadLeft < SONAR_THRESHOLD)
       /\ emitted = OnRight
            => ("sonarRight" \in polled /\ 0 < pingReadRight
                /\ pingReadRight < SONAR_THRESHOLD)

C3_Witness ==
  /\ Ran(Search)
  /\ polled = {"qtr", "sonar", "sonarLeft", "sonarRight"}
  /\ pingRead = 0 /\ pingReadLeft = 0 /\ pingReadRight = 0
  /\ emitted = None

C5_BackUpEndsSafe ==
  /\ Ran(BackUp) => (emitted = OnSafe /\ zumoEvent = OnSafe)
  /\ (pc = "doState" /\ prevState = BackUp) => zumoState = Search

C5_Witness ==
  /\ pc = "doState" /\ prevState = BackUp /\ zumoState = Search
  /\ sensorValues[0] > sensorValues[NUM_SENSORS - 1]

\* C6: every backUp() runs exactly one of its three maneuver branches
\* (less, greater, equal).
C6_ExactlyOneBranch ==
  Ran(BackUp) => Cardinality(branches) = 1

\* C7: initialize() leaves state Start and event None; the machine leaves
\* Start only in a cycle whose event is OnButtonPress, and only for Idle.
C7_StartUntilButton ==
  [][ /\ pc = "setup" => (zumoState' = Start /\ zumoEvent' = None)
      /\ (zumoState = Start /\ zumoState' # Start)
           => (zumoEvent = OnButtonPress /\ zumoState' = Idle) ]_vars

C7_Witness ==
  pc = "doState" /\ prevState = Start /\ zumoState = Idle

\* C8: when the preceding state action assigned no event, zumoEvent is None
\* at the time updateState() runs.
C8_EventDoesNotPersist ==
  (pc = "updateState" /\ emitted = None) => zumoEvent = None

\* C9 as stated: a Search cycle that detects an edge emits OnEdge, commands
\* the motors to (0, 0), and neither sweeps nor reads a range sensor.
C9_EdgeHaltsMotors ==
  (Ran(Search) /\ QTRUpdate(sensorValues) > -1)
    => /\ emitted = OnEdge
       /\ cmds = << <<0, 0, 0>> >>
       /\ motorSpeeds = <<0, 0>>
       /\ polled = {"qtr"}

\* C9 amended: a Search cycle that detects an edge emits OnEdge and returns
\* without any motor command (no halt, no sweep) and without reading a
\* range sensor.
C9_EdgeReturnsAtOnce ==
  (Ran(Search) /\ QTRUpdate(sensorValues) > -1)
    => /\ emitted = OnEdge
       /\ cmds = <<>>
       /\ polled = {"qtr"}

C9_Witness ==
  /\ Ran(Search) /\ QTRUpdate(sensorValues) > -1
  /\ emitted = OnEdge /\ cmds = <<>>
  /\ motorSpeeds = <<SEARCH_SPEED \div 2, SEARCH_SPEED>>

\* C10: no motor command in Start or Idle; a motor command has been issued
\* only once On5SecondsPassed was emitted and the state left Idle for
\* Search.
C10_NoMotorsBeforeSearch ==
  /\ zumoState \in {Start, Idle} => (motorSpeeds = <<>> /\ cmds = <<>>)
  /\ motorSpeeds # <<>> => (fired = 1 /\ zumoState \notin {Start, Idle})
  /\ (pc = "doState" /\ prevState \in {Start, Idle}
        /\ zumoState \notin {Start, Idle})
       => (zumoState = Search /\ zumoEvent = On5SecondsPassed
           /\ motorSpeeds = <<>>)

C10_Witness ==
  /\ Ran(Search) /\ prevState = Idle
  /\ cmds # <<>> /\ fired = 1
\* the state in which the latest state action ran
RanIn == IF pc = "doState" THEN prevState ELSE zumoState

\* C11: the button is polled and OnButtonPress assigned only by a cycle in
\* state Start, the idle timer is evaluated and On5SecondsPassed assigned
\* only by a cycle in state Idle; in the five other states neither event is
\* assigned, nor does zumoEvent hold one of them in Chase, BackUp, TurnLeft
\* or TurnRight.
C11_ButtonAndTimerOnlyInTheirState ==
  /\ ("button" \in polled \/ emitted = OnButtonPress) => RanIn = Start
  /\ ("millis" \in polled \/ emitted = On5SecondsPassed) => RanIn = Idle
  /\ zumoState \notin {Start, Idle} => zumoEvent # OnButtonPress
  /\ zumoState \in {Chase, BackUp, TurnLeft, TurnRight}
       => zumoEvent \notin {OnButtonPress, On5SecondsPassed}

C11_Witness ==
  /\ Ran(TurnRight) /\ ran = "turnRight"
  /\ polled = {"qtr", "sonar"} /\ emitted = None

\* C12: a Search cycle without edge picks its event by the priority front,
\* left, right among the readings r with 0 < r < SONAR_THRESHOLD, and none
\* otherwise; OnFind comes with a halt after the sweep, OnLeft and OnRight
\* leave the sweep (SEARCH_SPEED/2, SEARCH_SPEED) as the last command.
C12_SearchPriority ==
  (Ran(Search) /\ QTRUpdate(sensorValues) = -1)
    => LET near(r) == 0 < r /\ r < SONAR_THRESHOLD
           sweep == <<SEARCH_SPEED \div 2, SEARCH_SPEED>>
       IN  /\ emitted = IF near(pingRead) THEN OnFind
                        ELSE IF near(pingReadLeft) THEN OnLeft
                        ELSE IF near(pingReadRight) THEN OnRight
                        ELSE None
           /\ emitted = OnFind
                => (Len(cmds) = 2 /\ motorSpeeds = <<0, 0>>)
           /\ emitted \in {OnLeft, OnRight, None}
                => (Len(cmds) = 1 /\ motorSpeeds = sweep)
           /\ <<cmds[1][1], cmds[1][2]>> = sweep

C12_Witness ==
  /\ Ran(Search) /\ QTRUpdate(sensorValues) = -1
  /\ pingRead = 0
  /\ pingReadLeft = SONAR_THRESHOLD - 1
  /\ pingReadRight = SONAR_THRESHOLD - 1
  /\ emitted = OnLeft
  /\ motorSpeeds = <<SEARCH_SPEED \div 2, SEARCH_SPEED>>

\* C13: every Chase cycle commands (FORWARD_SPEED, FORWARD_SPEED); it
\* assigns an event exactly when an edge is detected, and then OnEdge.
C13_ChaseForwardUntilEdge ==
  Ran(Chase)
    => /\ cmds = << <<FORWARD_SPEED, FORWARD_SPEED, 0>> >>
       /\ motorSpeeds = <<FORWARD_SPEED, FORWARD_SPEED>>
       /\ emitted \in {None, OnEdge}
       /\ emitted = OnEdge <=> QTRUpdate(sensorValues) > -1

C13_Witness ==
  /\ Ran(Chase) /\ emitted = None
  /\ \A i \in Channels : sensorValues[i] = QTRTHRESHOLD
  /\ zumoEvent = OnFind

\* C14: a TurnLeft or TurnRight cycle checks the edge before the front
\* range: OnEdge on an edge whatever the front range; else OnFind with a
\* halt when 0 < front < SONAR_THRESHOLD; else no event, and then the state
\* stays.  TurnLeft and TurnRight are left only for Chase and BackUp.
C14_TurnEdgeThenFront ==
  /\ (pc = "updateState" /\ zumoState \in {TurnLeft, TurnRight})
       => LET edge == QTRUpdate(sensorValues) > -1
              near == 0 < pingRead /\ pingRead < SONAR_THRESHOLD
          IN  /\ edge => (emitted = OnEdge /\ "sonar" \notin polled)
              /\ (~edge /\ near)
                   => (emitted = OnFind /\ motorSpeeds = <<0, 0>>)
              /\ (~edge /\ ~near) => emitted = None
  /\ (pc = "doState" /\ prevState \in {TurnLeft, TurnRight})
       => /\ zumoState \in {prevState, Chase, BackUp}
          /\ emitted = None => zumoState = prevState
          /\ emitted = OnFind => zumoState = Chase
          /\ emitted = OnEdge => zumoState = BackUp

C14_Witness ==
  /\ Ran(TurnLeft) /\ QTRUpdate(sensorValues) > -1
  /\ 0 < echoFront /\ echoFront < SONAR_THRESHOLD
  /\ emitted = OnEdge

\* C16: every backUp() issues exactly two motor commands: a reverse (both
\* speeds negative) held REVERSE_DURATION, then a pivot (speeds of opposite
\* sign) held TURN_DURATION.
C16_BackUpTwoCommands ==
  Ran(BackUp)
    => /\ Len(cmds) = 2
       /\ cmds[1][1] < 0 /\ cmds[1][2] < 0 /\ cmds[1][3] = REVERSE_DURATION
       /\ cmds[2][1] * cmds[2][2] < 0 /\ cmds[2][3] = TURN_DURATION

\* C17: backUp() reads no sensor and leaves sensorValues and the range
\* readings as they are; it runs right after the QTRUpdate() that assigned
\* the OnEdge, so some channel of sensorValues is below QTRTHRESHOLD.
C17_BackUpUsesDetectionReadings ==
  /\ []((pc = "doState" /\ zumoState = BackUp)
          => /\ emitted = OnEdge /\ "qtr" \in polled
             /\ \E i \in Channels : sensorValues[i] < QTRTHRESHOLD)
  /\ [](Ran(BackUp)
          => /\ polled = {}
             /\ \E i \in Channels : sensorValues[i] < QTRTHRESHOLD)
  /\ [][(pc = "doState" /\ zumoState = BackUp)
          => UNCHANGED <<sensorValues, pingRead, pingReadLeft,
                         pingReadRight>>]_vars

C17_Witness ==
  /\ Ran(BackUp) /\ prevState = Chase
  /\ sensorValues[0] = QTRTHRESHOLD
  /\ sensorValues[NUM_SENSORS - 1] = QTRTHRESHOLD - 1

\* the state function of each state
FunctionOf(s) ==
  CASE s = Start -> "start" [] s = Idle -> "idle" [] s = Search -> "search"
    [] s = Chase -> "chase" [] s = BackUp -> "backUp"
    [] s = TurnLeft -> "turnLeft" [] s = TurnRight -> "turnRight"

\* C18: a cycle is one updateState() followed by one state action, the one
\* of the state that updateState() produced; the event a state action
\* assigns is applied by the updateState() that follows, before any other
\* state action runs.
C18_OneActionPerCycle ==
  /\ []((pc = "updateState" /\ ran # "") => ran = FunctionOf(zumoState))
  /\ [][pc = "doState"
          => /\ pc' = "updateState"
             /\ ran' = FunctionOf(zumoState)
             /\ zumoState' = zumoState
             /\ emitted' # None => zumoEvent' = emitted']_vars
  /\ [][pc = "updateState"
          => /\ pc' = "doState"
             /\ ran' = ran /\ emitted' = emitted /\ zumoEvent' = zumoEvent
             /\ emitted # None
                  => zumoState' = TableTarget(zumoState, emitted)]_vars

C18_Witness ==
  /\ pc = "doState" /\ ran = "search" /\ emitted = OnRight
  /\ prevState = Search /\ zumoState = TurnRight

\* C19: QTRUpdate() returns the smallest index whose reading is strictly
\* below QTRTHRESHOLD, and -1 exactly when every reading is at or above it.
C19_FirstChannelBelow ==
  "qtr" \in polled
    => LET r == QTRUpdate(sensorValues)
       IN  /\ r = -1 <=> \A i \in Channels : sensorValues[i] >= QTRTHRESHOLD
           /\ r # -1
                => /\ r \in Channels
                   /\ sensorValues[r] < QTRTHRESHOLD
                   /\ \A j \in 0 .. (r - 1) : sensorValues[j] >= QTRTHRESHOLD
           /\ (emitted = OnEdge) <=> (r # -1)

C19_Witness ==
  /\ Ran(Chase) /\ emitted = OnEdge
  /\ sensorValues[0] = QTRTHRESHOLD /\ sensorValues[1] = QTRTHRESHOLD
  /\ sensorValues[2] = QTRTHRESHOLD - 1
  /\ QTRUpdate(sensorValues) = 2

\* C15: once start() reports the button press the state is Idle in the next
\* cycle, it stays Idle while fewer than 5000 ms have passed since the first
\* Idle cycle, and it eventually becomes Search.
C15_StartSequenceLive ==
  /\ [][(Ran(Start) /\ emitted = OnButtonPress) => zumoState' = Idle]_vars
  /\ [](zumoState \notin {Start, Idle}
          => Geq(clock, Plus(firstIdleAt, Ms(5000))))
  /\ (Ran(Start) /\ emitted = OnButtonPress) ~> (zumoState = Search)

\* C20: the earlier variant follows its flowchart: once idle() has waited
\* and assigned On5SecondsPassed, the following updateState() takes the
\* machine from Idle to Search.
C20_V1IdleLeadsToSearch ==
  (pc = "doState" /\ prevState = Idle /\ emitted = On5SecondsPassed)
    => zumoState = Search

\* C21: a stale event never causes a transition.  Every change of zumoState
\* made by updateState() is the table's answer to the event that the
\* preceding state action assigned, and when that action assigned nothing
\* updateState() leaves the state as it is, whatever zumoEvent still holds.
C21_StaleEventNoTransition ==
  /\ (pc = "doState" /\ zumoState # prevState)
       => /\ emitted # None
          /\ zumoEvent = emitted
          /\ TableRows(prevState, emitted) # {}
          /\ zumoState = TableTarget(prevState, emitted)
  /\ (pc = "doState" /\ emitted = None) => zumoState = prevState

C21_Witness ==
  /\ pc = "doState" /\ emitted = None /\ zumoEvent = OnLeft
  /\ prevState = TurnLeft /\ zumoState = TurnLeft
  /\ ran = "turnLeft"

\* C22: no state action assigns OnLost and zumoEvent never holds it; the
\* only state that directly follows Chase is BackUp, and Chase is left only
\* by the updateState() that follows a chase() whose scan found an edge.
C22_ChaseLeftOnlyForBackUp ==
  /\ emitted # OnLost /\ zumoEvent # OnLost
  /\ (pc = "doState" /\ prevState = Chase /\ zumoState # Chase)
       => /\ zumoState = BackUp
          /\ ran = "chase" /\ emitted = OnEdge
          /\ QTRUpdate(sensorValues) > -1
  /\ (pc = "doState" /\ prevState = Chase /\ zumoState = Chase)
       => (emitted = None /\ QTRUpdate(sensorValues) = -1)

C22_Witness ==
  /\ pc = "doState" /\ prevState = Chase /\ zumoState = BackUp
  /\ ran = "chase" /\ emitted = OnEdge

\* a setSpeeds call with both wheel speeds negative
IsReverse(step) == step[1] = "set" /\ step[2] < 0 /\ step[3] < 0

\* C23: OnEdge is assigned only by search, chase, turnLeft and turnRight,
\* and the reflectance scan that found the edge is the last thing that
\* function does: no setSpeeds call and no sensor read follows it.  The
\* state action of the following cycle is backUp(), and the first thing it
\* does is a setSpeeds call with both wheel speeds negative.
C23_EdgeThenReverse ==
  /\ [](emitted = OnEdge
          => /\ ran \in {"search", "chase", "turnLeft", "turnRight"}
             /\ steps # <<>>
             /\ steps[Len(steps)] = Reads("qtr"))
  /\ []((pc = "doState" /\ emitted = OnEdge) => zumoState = BackUp)
  /\ [][emitted = OnEdge
          => \/ /\ pc = "updateState" /\ pc' = "doState"
                /\ UNCHANGED <<steps, motorSpeeds, sensorValues, pingRead,
                               pingReadLeft, pingReadRight, emitted>>
             \/ /\ pc = "doState" /\ ran' = "backUp"
                /\ steps' # <<>> /\ IsReverse(steps'[1])
                /\ \A i \in 1 .. Len(steps') : steps'[i][1] # "read"]_vars

C23_Witness ==
  /\ Ran(BackUp) /\ prevState = TurnRight
  /\ steps[1] = SetSpeeds(-REVERSE_SPEED, (-REVERSE_SPEED) \div 2)
  /\ motorSpeeds = <<-TURN_SPEED, TURN_SPEED>>

\* C24: Start and Idle are never re-entered: a state other than Start is
\* never followed by Start, and a state other than Start and Idle never by
\* Start or Idle.  The idle timer is armed at most once (once
\* startIdleTimer is set it stays set and idleTimer keeps its value), and
\* stopIdleTimer is true in every state other than Start and Idle.
C24_StartIdleNotReentered ==
  /\ [][/\ zumoState # Start => zumoState' # Start
        /\ zumoState \notin {Start, Idle} => zumoState' \notin {Start, Idle}
        /\ startIdleTimer => (startIdleTimer' /\ idleTimer' = idleTimer)
        /\ stopIdleTimer => stopIdleTimer']_vars
  /\ [](zumoState \notin {Start, Idle}
          => (stopIdleTimer /\ startIdleTimer /\ fired = 1))
  /\ [](zumoState = Start => ~startIdleTimer)

C24_Witness ==
  /\ pc = "doState" /\ prevState = BackUp /\ zumoState = Search
  /\ stopIdleTimer /\ startIdleTimer
  /\ idleTimer = firstIdleAt
====
